---- MODULE Spec2Model ----
(***************************************************************************)
(* A model of src/src/bn/mod.rs: the owning BigNum wrapper around the      *)
(* native bignum library.  The state is the native heap of bignum handles, *)
(* the live scratch contexts and library buffers, the library's error      *)
(* queue, the BigNum values the calling task owns, and the operation that  *)
(* has just returned (its result and the library calls it made, in order). *)
(* Each public operation is one action; every fallible library call inside *)
(* it may succeed or fail.                                                 *)
(***************************************************************************)
EXTENDS Integers, Sequences, FiniteSets, TLC

\* ------------------------------------------------------------------ bounds
\* native bignum handles the allocator can hand out before BN_new fails
MaxHandles == 3
\* BigNum values the calling task holds at once
MaxSlots == 3
\* largest magnitude a value of the main specification takes
MaxMag == 3
\* the byte-conversion specification starts from magnitudes up to this one
MaxBytesMag == 66000

\* the value of tests::test_to_from_slice
TestValue == 10203004
\* bits per word of the native bignum (BN_BITS2)
BN_BITS2 == 64

NULL == 0
NoVal == -1
Handles == 1..MaxHandles
Slots == 1..MaxSlots
Words == 0..MaxMag

\* ------------------------------------------------------------- arithmetic
RECURSIVE Pow(_, _)
Pow(b, e) == IF e <= 0 THEN 1 ELSE b * Pow(b, e - 1)

RECURSIVE BitLen(_)
\* BN_num_bits: position of the highest set bit plus one, 0 for zero
BitLen(m) == IF m <= 0 THEN 0 ELSE 1 + BitLen(m \div 2)

RECURSIVE Gcd(_, _)
Gcd(a, b) == IF b = 0 THEN a ELSE Gcd(b, a % b)

Abs(v) == IF v < 0 THEN -v ELSE v
\* C-style division: the quotient truncates toward zero, the remainder
\* takes the sign of the dividend
TruncDiv(a, b) == IF (a < 0) = (b < 0) THEN Abs(a) \div Abs(b) ELSE -(Abs(a) \div Abs(b))
TruncRem(a, b) == a - b * TruncDiv(a, b)
NnMod(a, n) == LET r == TruncRem(a, n) IN IF r < 0 THEN r + Abs(n) ELSE r
IsPrime(p) == p >= 2 /\ \A d \in 2..(p - 1) : p % d # 0
\* words in use (the struct's top)
Top(m) == (BitLen(m) + BN_BITS2 - 1) \div BN_BITS2
BitSet(m, i) == (m \div Pow(2, i)) % 2 = 1

IntOf(c) == IF c.neg THEN -(c.mag) ELSE c.mag

\* ------------------------------------------------------------------ state
VARIABLES
    heap,
    slots,
    ctxLive,
    bufLive,
    errq,
    uaf,
    panicked,
    last

\* heap:     native handle -> its allocation state, value and release counts
\* slots:    the BigNum values the task owns, oldest first: their pointers
\* ctxLive:  number of live scratch contexts (BN_CTX)
\* bufLive:  number of live library buffers (BN_bn2dec results)
\* errq:     the library's error queue: the primitives that pushed an error
\* uaf:      a library call touched a handle that is not live
\* panicked: the task has failed and unwound
\* last:     the operation that has just returned, until the task takes
\*           its result: name, result, payload, library calls, arguments
vars == <<heap, slots, ctxLive, bufLive, errq, uaf, panicked, last>>

Unalloc == [st |-> "unalloc", neg |-> FALSE, mag |-> 0, frees |-> 0, plain |-> 0,
            wrapped |-> FALSE]

\* the machine state a sequence of library calls threads through
Machine == [heap |-> heap, ctx |-> ctxLive, buf |-> bufLive, errq |-> errq,
            uaf |-> uaf, trace |-> <<>>, ret |-> 0]

\* one library call is logged with the primitive, the handle it wrote or
\* released, what it returned, whether that return reports failure, and the
\* error queue it left
Logged(T, name, h, ret, failed) ==
    [T EXCEPT !.trace = Append(@, [call |-> name, h |-> h, ret |-> ret,
                                   failed |-> failed, q |-> T.errq]),
              !.ret = ret]

Live(S, h) == h \in Handles /\ S.heap[h].st = "live"
\* reading or writing through a pointer that is not a live handle
Touch(S, hs) == [S EXCEPT !.uaf = @ \/ \E h \in hs : ~Live(S, h)]
ValueAt(S, h) == IF h \in Handles THEN IntOf(S.heap[h]) ELSE 0
MagAt(S, h) == IF h \in Handles THEN S.heap[h].mag ELSE 0

Fresh(S) == IF \E h \in Handles : S.heap[h].st = "unalloc"
            THEN CHOOSE h \in Handles : /\ S.heap[h].st = "unalloc"
                                        /\ \A g \in Handles : S.heap[g].st = "unalloc" => h <= g
            ELSE NULL

\* a primitive that reports failure pushes an error on the library's queue
Fail(S, name, h, ret) == Logged([S EXCEPT !.errq = @ \cup {name}], name, h, ret, TRUE)
\* a primitive that rejects an argument returns 0 and pushes nothing
Reject(S, name, h) == Logged(S, name, h, 0, TRUE)
\* writing a value through a handle
Store(S, h, neg, mag) == [S EXCEPT !.heap[h] = [@ EXCEPT !.neg = neg, !.mag = mag]]

\* ------------------------------------------------- the library's primitives
\* BN_new: a fresh handle valued zero, or NULL
BN_new(S, ok) ==
    LET h == Fresh(S) IN
    IF ok /\ h # NULL
    THEN Logged([S EXCEPT !.heap[h] = [Unalloc EXCEPT !.st = "live"]], "BN_new", h, h, FALSE)
    ELSE Fail(S, "BN_new", NULL, NULL)

\* BN_dup: a fresh handle holding a copy of the value, or NULL
BN_dup(S, a, ok) ==
    LET h == Fresh(S)
        T == Touch(S, {a})
    IN  IF ok /\ h # NULL /\ a \in Handles
        THEN Logged([T EXCEPT !.heap[h] = [Unalloc EXCEPT !.st = "live", !.neg = S.heap[a].neg,
                                                          !.mag = S.heap[a].mag]],
                    "BN_dup", h, h, FALSE)
        ELSE Fail(T, "BN_dup", NULL, NULL)

\* BN_clear_free: scrub the value and release the handle; reports nothing
BN_clear_free(S, h) ==
    IF h \in Handles
    THEN Logged([Touch(S, {h}) EXCEPT !.heap[h] = [@ EXCEPT !.st = "freed", !.neg = FALSE,
                                                           !.mag = 0, !.frees = @ + 1]],
                "BN_clear_free", h, 1, FALSE)
    ELSE Logged(S, "BN_clear_free", h, 1, FALSE)

\* BN_free: release the handle without scrubbing
BN_free(S, h) ==
    IF h \in Handles
    THEN Logged([Touch(S, {h}) EXCEPT !.heap[h] = [@ EXCEPT !.st = "freed", !.plain = @ + 1]],
                "BN_free", h, 1, FALSE)
    ELSE Logged(S, "BN_free", h, 1, FALSE)

\* BN_CTX_new / BN_CTX_free
BN_CTX_new(S, ok) ==
    IF ok
    THEN Logged([S EXCEPT !.ctx = @ + 1], "BN_CTX_new", NULL, 1, FALSE)
    ELSE Fail(S, "BN_CTX_new", NULL, NULL)

BN_CTX_free(S) == Logged([S EXCEPT !.ctx = @ - 1], "BN_CTX_free", NULL, 1, FALSE)

\* SslError::get: drain the error queue into a snapshot
SslError_get(S) == Logged([S EXCEPT !.errq = {}], "SslError::get", NULL, 1, FALSE)

\* BN_set_word
BN_set_word(S, h, w, ok) ==
    IF ok /\ h \in Handles
    THEN Logged(Store(Touch(S, {h}), h, FALSE, w), "BN_set_word", h, 1, FALSE)
    ELSE Fail(Touch(S, {h}), "BN_set_word", h, 0)

RECURSIVE FromBytes(_)
\* the unsigned big-endian reading of a byte sequence
FromBytes(b) == IF b = <<>> THEN 0
                ELSE 256 * FromBytes(SubSeq(b, 1, Len(b) - 1)) + b[Len(b)]

RECURSIVE ToBytes(_)
\* the minimal big-endian bytes of a magnitude: none for zero
ToBytes(m) == IF m = 0 THEN <<>> ELSE Append(ToBytes(m \div 256), m % 256)

\* BN_bin2bn(s, len, ret) with a destination: ret, or NULL; the sign is
\* cleared
BN_bin2bn(S, b, h, ok) ==
    IF ok /\ h \in Handles
    THEN Logged(Store(Touch(S, {h}), h, FALSE, FromBytes(b)), "BN_bin2bn", h, h, FALSE)
    ELSE Fail(Touch(S, {h}), "BN_bin2bn", h, NULL)

\* BN_set_negative: the sign flag is set only on a non-zero value
BN_set_negative(S, h, b) ==
    IF h \in Handles
    THEN Logged(Store(Touch(S, {h}), h, b /\ S.heap[h].mag # 0, S.heap[h].mag),
                "BN_set_negative", h, 1, FALSE)
    ELSE Logged(Touch(S, {h}), "BN_set_negative", h, 1, FALSE)

\* BN_set_bit: rejects a negative index; fails when the magnitude has to
\* grow and cannot
BN_set_bit(S, h, n, ok) ==
    LET m == MagAt(S, h) IN
    IF n < 0 THEN Reject(Touch(S, {h}), "BN_set_bit", h)
    ELSE IF Top(m) <= n \div BN_BITS2 /\ ~ok THEN Fail(Touch(S, {h}), "BN_set_bit", h, 0)
    ELSE Logged(Store(Touch(S, {h}), h, S.heap[h].neg,
                      IF BitSet(m, n) THEN m ELSE m + Pow(2, n)),
                "BN_set_bit", h, 1, FALSE)

\* BN_clear_bit: rejects a negative index and an index beyond the words in use
BN_clear_bit(S, h, n) ==
    LET m == MagAt(S, h) IN
    IF n < 0 \/ Top(m) <= n \div BN_BITS2 THEN Reject(Touch(S, {h}), "BN_clear_bit", h)
    ELSE LET m2 == IF BitSet(m, n) THEN m - Pow(2, n) ELSE m
         IN  Logged(Store(Touch(S, {h}), h, S.heap[h].neg /\ m2 # 0, m2), "BN_clear_bit", h, 1, FALSE)

\* BN_mask_bits: rejects a negative count and a count beyond the words in use
BN_mask_bits(S, h, n) ==
    LET m == MagAt(S, h) IN
    IF n < 0 \/ n \div BN_BITS2 >= Top(m) THEN Reject(Touch(S, {h}), "BN_mask_bits", h)
    ELSE LET m2 == m % Pow(2, n)
         IN  Logged(Store(Touch(S, {h}), h, S.heap[h].neg /\ m2 # 0, m2), "BN_mask_bits", h, 1, FALSE)

\* BN_is_bit_set
BN_is_bit_set(S, h, n) ==
    Logged(Touch(S, {h}), "BN_is_bit_set", h,
           IF n >= 0 /\ BitSet(MagAt(S, h), n) THEN 1 ELSE 0, FALSE)

\* BN_num_bits
BN_num_bits(S, h) == Logged(Touch(S, {h}), "BN_num_bits", h, BitLen(MagAt(S, h)), FALSE)

\* BN_is_zero
BN_is_zero(S, h) == Logged(Touch(S, {h}), "BN_is_zero", h, IF MagAt(S, h) = 0 THEN 1 ELSE 0, FALSE)

Sign(d) == IF d < 0 THEN -1 ELSE IF d > 0 THEN 1 ELSE 0
\* BN_cmp: signed comparison
BN_cmp(S, a, b) ==
    Logged(Touch(S, {a, b}), "BN_cmp", a, Sign(ValueAt(S, a) - ValueAt(S, b)), FALSE)

\* BN_ucmp: comparison of the magnitudes
BN_ucmp(S, a, b) ==
    Logged(Touch(S, {a, b}), "BN_ucmp", a, Sign(MagAt(S, a) - MagAt(S, b)), FALSE)

\* BN_bn2bin: writes the magnitude's bytes, most significant first
BN_bn2bin(S, h) == Logged(Touch(S, {h}), "BN_bn2bin", h, Len(ToBytes(MagAt(S, h))), FALSE)

\* BN_bn2dec: a library buffer holding the decimal text, or NULL
BN_bn2dec(S, h, ok) ==
    IF ok
    THEN Logged([Touch(S, {h}) EXCEPT !.buf = @ + 1], "BN_bn2dec", h, 1, FALSE)
    ELSE Fail(Touch(S, {h}), "BN_bn2dec", h, NULL)

\* CRYPTO_free of a BN_bn2dec buffer
CRYPTO_free(S) == Logged([S EXCEPT !.buf = @ - 1], "CRYPTO_free", NULL, 1, FALSE)

RECURSIVE Digits(_)
Digits(m) == IF m < 10 THEN <<m>> ELSE Append(Digits(m \div 10), m % 10)
\* the decimal text: a leading "-" (here -1) for a negative value, then the
\* digits, most significant first
DecText(v) == IF v < 0 THEN <<-1>> \o Digits(-v) ELSE Digits(v)

\* BN_is_prime_ex / BN_is_prime_fasttest_ex: 1 for a prime, 0 for a
\* composite (and for every value below 2), -1 on error; BN_is_prime_ex runs
\* BN_is_prime_fasttest_ex, which is where the error is pushed
PrimeTest(S, name, h, ok) ==
    IF ok
    THEN Logged(Touch(S, {h}), name, h, IF IsPrime(ValueAt(S, h)) THEN 1 ELSE 0, FALSE)
    ELSE Logged([Touch(S, {h}) EXCEPT !.errq = @ \cup {"BN_is_prime_fasttest_ex"}],
                name, h, -1, TRUE)

\* ---------------------------------------------- the arithmetic primitives
\* A call of an arithmetic primitive is described by a record: the
\* primitive's name, the destination r, the operand handles a, b, n (NULL
\* when absent), the integer arguments k and top, the flag, and c, the value
\* a random primitive draws.
NoPrim == [name |-> "", r |-> NULL, a |-> NULL, b |-> NULL, n |-> NULL,
           k |-> 0, top |-> 0, flag |-> FALSE, c |-> 0]

\* BN_rand / BN_pseudo_rand: c is a value of the shape (bits, top, bottom)
RandShape(c, bits, top, odd) ==
    /\ c >= 0 /\ c < Pow(2, bits)
    /\ (top >= 0 /\ bits >= 1) => BitLen(c) = bits
    /\ (top = 1 /\ bits >= 2) => (c \div Pow(2, bits - 2)) % 2 = 1
    /\ (odd /\ bits >= 1) => c % 2 = 1

\* BN_generate_prime_ex: c is a prime of exactly `bits` bits; a safe prime
\* when safe; congruent to rem modulo add when add is given (rem defaults to
\* 1, or 3 for a safe prime; rem without add is ignored)
PrimeShape(c, bits, safe, hasAdd, add, hasRem, rem) ==
    /\ IsPrime(c) /\ BitLen(c) = bits
    /\ safe => IsPrime((c - 1) \div 2)
    /\ hasAdd => /\ add > 0
                 /\ c % add = NnMod(IF hasRem THEN rem ELSE IF safe THEN 3 ELSE 1, add)

\* what the primitive computes from its operands: [ok, v]; ok is FALSE when
\* the primitive rejects the operands
PrimValue(p, x, y, z) ==
    LET Good(v) == [ok |-> TRUE, v |-> v]
        Bad == [ok |-> FALSE, v |-> 0]
        nm == p.name
    IN  CASE nm = "BN_add" -> Good(x + y)
          [] nm = "BN_sub" -> Good(x - y)
          [] nm = "BN_mul" -> Good(x * y)
          [] nm = "BN_sqr" -> Good(x * x)
          [] nm = "BN_div" -> IF y = 0 THEN Bad ELSE Good(TruncDiv(x, y))
          [] nm = "BN_div(rem)" -> IF y = 0 THEN Bad ELSE Good(TruncRem(x, y))
          [] nm = "BN_nnmod" -> IF y = 0 THEN Bad ELSE Good(NnMod(x, y))
          [] nm = "BN_mod_add" -> IF z = 0 THEN Bad ELSE Good(NnMod(x + y, z))
          [] nm = "BN_mod_sub" -> IF z = 0 THEN Bad ELSE Good(NnMod(x - y, z))
          [] nm = "BN_mod_mul" -> IF z = 0 THEN Bad ELSE Good(NnMod(x * y, z))
          [] nm = "BN_mod_sqr" -> IF y = 0 THEN Bad ELSE Good(NnMod(x * x, y))
          [] nm = "BN_exp" -> Good(Pow(x, Abs(y)))
          [] nm = "BN_mod_exp" -> IF z = 0 THEN Bad ELSE Good(NnMod(Pow(x, Abs(y)), z))
          [] nm = "BN_mod_inverse" ->
                IF y = 0 THEN Bad
                ELSE IF Abs(y) = 1 THEN Good(0)
                ELSE IF \E i \in 1..(Abs(y) - 1) : NnMod(x * i, y) = 1
                     THEN Good(CHOOSE i \in 1..(Abs(y) - 1) : NnMod(x * i, y) = 1)
                     ELSE Bad
          [] nm = "BN_gcd" -> Good(Gcd(Abs(x), Abs(y)))
          [] nm = "BN_lshift1" -> Good(2 * x)
          [] nm = "BN_rshift1" -> Good(TruncDiv(x, 2))
          [] nm = "BN_lshift" -> Good(x * Pow(2, p.k))
          [] nm = "BN_rshift" -> Good(TruncDiv(x, Pow(2, p.k)))
          [] nm \in {"BN_rand", "BN_pseudo_rand"} ->
                IF RandShape(p.c, p.k, p.top, p.flag) THEN Good(p.c) ELSE Bad
          [] nm \in {"BN_rand_range", "BN_pseudo_rand_range"} ->
                IF x > 0 /\ p.c >= 0 /\ p.c < x THEN Good(p.c) ELSE Bad
          [] nm = "BN_generate_prime_ex" ->
                IF PrimeShape(p.c, p.k, p.flag, p.b # NULL, y, p.n # NULL, z)
                THEN Good(p.c) ELSE Bad
          [] OTHER -> Bad

PrimOperands(p) == {p.a, p.b, p.n} \ {NULL}
PrimResult(S, p) == PrimValue(p, ValueAt(S, p.a), ValueAt(S, p.b), ValueAt(S, p.n))

\* one call of an arithmetic primitive writing its result to p.r: returns 1
\* (BN_mod_inverse: the destination) on success, 0 (NULL) on failure; only
\* the destination is written
PrimCall(T, p, ok, pv) ==
    IF ok /\ pv.ok /\ p.r \in Handles
    THEN Logged(Store(T, p.r, pv.v < 0, Abs(pv.v)), p.name, p.r,
                IF p.name = "BN_mod_inverse" THEN p.r ELSE 1, FALSE)
    ELSE Fail(T, p.name, p.r, 0)

Prim(S, p, ok) == PrimCall(Touch(S, PrimOperands(p) \cup {p.r}), p, ok, PrimResult(S, p))

\* the value a successful call of p leaves is one the model holds
Fits(pv) == pv.ok => Abs(pv.v) <= MaxMag
PrimFits(S, p) == Fits(PrimResult(S, p))

\* ------------------------------------------------------- results and Drop
\* the result of an operation: the machine state it leaves, Ok or Err, the
\* pointer of the BigNum it returns (NoVal when none) and the error payload
Ok(S, ptr) == [S |-> S, res |-> "Ok", out |-> ptr, payload |-> {}, val |-> 0]
\* Err(SslError::get()): the payload is the queue as SslError::get finds it
Err(S) == [S |-> SslError_get(S), res |-> "Err", out |-> NoVal, payload |-> S.errq,
           val |-> 0]

\* BigNum(v): the tuple struct takes ownership of the pointer
BigNum(S, v) == IF v \in Handles THEN [S EXCEPT !.heap[v].wrapped = TRUE] ELSE S

\* Drop for BigNum
Drop(S, ptr) == IF ptr # NULL THEN BN_clear_free(S, ptr) ELSE S

\* the outcomes of the fallible calls of one operation (a call after a
\* failed one is not made, so its outcome is left FALSE)
Outcomes == {f \in [new : BOOLEAN, ctx : BOOLEAN, prim : BOOLEAN] :
                (f.ctx => f.new) /\ (f.prim => f.ctx)}

\* ------------------------------------------------------------- the macros
\* the macro's $action block: the primitive's return compared with 1, or,
\* for BN_mod_inverse, tested for null
ActionHolds(p, S) == IF p.name = "BN_mod_inverse" THEN S.ret # NULL ELSE S.ret = 1

\* BigNum::new
BigNum_new(S1) == IF S1.ret = NULL THEN Err(S1) ELSE Ok(BigNum(S1, S1.ret), S1.ret)
new_(S, ok) == BigNum_new(BN_new(S, ok))

\* with_ctx!: a scratch context, the action, the context freed, the
\* action's result returned; the action here is Ok(<primality test> == 1)
with_ctx_action(S2) == [Ok(BN_CTX_free(S2), NoVal) EXCEPT !.val = IF S2.ret = 1 THEN 1 ELSE 0]
with_ctx_body(S1, name, h, f) ==
    IF S1.ret = NULL THEN Err(S1) ELSE with_ctx_action(PrimeTest(S1, name, h, f.prim))
with_ctx(S, name, h, f) == with_ctx_body(BN_CTX_new(S, f.ctx), name, h, f)

\* Err(SslError::get()) in an arm that owns the destination r: the error is
\* built, then r goes out of scope
ErrDropping(S, r) == [Err(S) EXCEPT !.S = Drop(@, r)]

\* with_bn!: a fresh destination, the action, the destination or the error
with_bn_action(S2, p, r) == IF ActionHolds(p, S2) THEN Ok(S2, r) ELSE ErrDropping(S2, r)
with_bn_body(tmp, p, f) ==
    IF tmp.res = "Ok"
    THEN with_bn_action(Prim(tmp.S, [p EXCEPT !.r = tmp.out], f.prim), p, tmp.out)
    ELSE tmp
with_bn(S, p, f) == with_bn_body(new_(S, f.new), p, f)

\* with_bn_in_ctx!: as with_bn!, the action running with a scratch context,
\* which is freed after the result (and the error snapshot) is built and
\* before the destination of a failed action goes out of scope
CtxFreeThenDrop(e, r) == [e EXCEPT !.S = Drop(BN_CTX_free(@), r)]
\* faulty variant: a failed action returns its error without freeing the
\* scratch context
with_bn_in_ctx_action_leak(S3, p, r) ==
    IF ActionHolds(p, S3) THEN Ok(BN_CTX_free(S3), r) ELSE ErrDropping(S3, r)
\* faulty variant: the scratch context is freed before the error snapshot
\* is taken
with_bn_in_ctx_action_late(S3, p, r) ==
    IF ActionHolds(p, S3) THEN Ok(BN_CTX_free(S3), r) ELSE ErrDropping(BN_CTX_free(S3), r)
with_bn_in_ctx_action(S3, p, r) ==
    IF ActionHolds(p, S3) THEN Ok(BN_CTX_free(S3), r) ELSE CtxFreeThenDrop(Err(S3), r)
with_bn_in_ctx_ctx(S2, p, f, r) ==
    IF S2.ret = NULL
    THEN ErrDropping(S2, r)
    ELSE with_bn_in_ctx_action(Prim(S2, [p EXCEPT !.r = r], f.prim), p, r)
with_bn_in_ctx_body(tmp, p, f) ==
    IF tmp.res = "Ok"
    THEN with_bn_in_ctx_ctx(BN_CTX_new(tmp.S, f.ctx), p, f, tmp.out)
    ELSE tmp
with_bn_in_ctx(S, p, f) == with_bn_in_ctx_body(new_(S, f.new), p, f)

\* --------------------------------------------------- the task and its slots
Has(s) == s \in DOMAIN slots
\* the task has room to keep one more BigNum
Room == Len(slots) < MaxSlots
Remove(q, s) == SubSeq(q, 1, s - 1) \o SubSeq(q, s + 1, Len(q))
ArgPtrs(args) == [i \in DOMAIN args |-> slots[args[i]]]
ArgVals(args) == [i \in DOMAIN args |->
                    IF slots[args[i]] \in Handles
                    THEN [st |-> heap[slots[args[i]]].st, neg |-> heap[slots[args[i]]].neg,
                          mag |-> heap[slots[args[i]]].mag]
                    ELSE [st |-> "null", neg |-> FALSE, mag |-> 0]]

\* no operation is pending: the task has taken the last result
None == [op |-> "none", res |-> "ret", val |-> 0, out |-> NoVal, payload |-> {},
         trace |-> <<>>, args |-> <<>>, argv |-> <<>>, bytes |-> <<>>]
Idle == last.op = "none"
Running == ~panicked /\ Idle

\* what the task sees of an operation that has returned: its name, the
\* kind of result (Ok, Err, a plain return, a panic), the plain value, the
\* BigNum returned, the error payload, the library calls made, the pointers
\* and the values before the call of the BigNums passed, the bytes or text
Record(op, res, val, out, payload, S, args, bytes) ==
    [op |-> op, res |-> res, val |-> val, out |-> out, payload |-> payload,
     trace |-> S.trace, args |-> ArgPtrs(args), argv |-> ArgVals(args), bytes |-> bytes]

Commit(S) ==
    /\ heap' = S.heap
    /\ ctxLive' = S.ctx
    /\ bufLive' = S.buf
    /\ errq' = S.errq
    /\ uaf' = S.uaf

\* an operation returning Result<BigNum, SslError>: the task keeps the
\* BigNum of an Ok
ReturnBigNum(op, R, args) ==
    /\ Commit(R.S)
    /\ slots' = IF R.res = "Ok" THEN Append(slots, R.out) ELSE slots
    /\ last' = Record(op, R.res, 0, R.out, R.payload, R.S, args, <<>>)
    /\ UNCHANGED panicked

\* an operation returning a plain value or a Result without a BigNum
ReturnValue(op, res, val, payload, S, args, bytes) ==
    /\ Commit(S)
    /\ last' = Record(op, res, val, NoVal, payload, S, args, bytes)
    /\ UNCHANGED <<slots, panicked>>

RECURSIVE DropAll(_, _)
\* unwinding: every BigNum the task owns is dropped
DropAll(S, ss) ==
    IF ss = {} THEN S
    ELSE LET s == CHOOSE x \in ss : \A y \in ss : x >= y
         IN  DropAll(Drop(S, slots[s]), ss \ {s})

\* fail!, unwrap() of an Err, a failed assert!: the task unwinds
Panic(op, S, args) ==
    /\ Commit(DropAll(S, DOMAIN slots))
    /\ slots' = <<>>
    /\ panicked' = TRUE
    /\ last' = Record(op, "panic", 0, NoVal, {}, DropAll(S, DOMAIN slots), args, <<>>)

\* the task takes the result of the operation that returned
take ==
    /\ ~panicked /\ ~Idle
    /\ last' = None
    /\ UNCHANGED <<heap, slots, ctxLive, bufLive, errq, uaf, panicked>>

\* ----------------------------------------------------------- constructors
new ==
    /\ Running /\ Room
    /\ \E ok \in BOOLEAN : ReturnBigNum("new", new_(Machine, ok), <<>>)

\* BigNum::new_from; the pointer becomes a BigNum on the success path only
new_from_word(S2, bn) == IF S2.ret = 0 THEN Err(S2) ELSE Ok(BigNum(S2, bn), bn)
new_from_body(S1, n, f) ==
    IF S1.ret = NULL THEN Err(S1) ELSE new_from_word(BN_set_word(S1, S1.ret, n, f.prim), S1.ret)
new_from_(S, n, f) == new_from_body(BN_new(S, f.new), n, f)

new_from ==
    /\ Running /\ Room
    /\ \E n \in Words, f \in Outcomes :
          ReturnBigNum("new_from", new_from_(Machine, n, f), <<>>)

\* BigNum::new_from_slice
new_from_slice_bin(S2, bn) == IF S2.ret = NULL THEN Err(S2) ELSE Ok(BigNum(S2, bn), bn)
new_from_slice_body(S1, n, f) ==
    IF S1.ret = NULL THEN Err(S1)
    ELSE new_from_slice_bin(BN_bin2bn(S1, n, S1.ret, f.prim), S1.ret)
new_from_slice_(S, n, f) == new_from_slice_body(BN_new(S, f.new), n, f)

\* the slices the task passes besides a vector it has just been given
SliceInputs == {<<>>, <<0>>, <<1>>, <<0, 2>>}

\* the slice is one of SliceInputs, or the vector to_vec has just returned
new_from_slice ==
    /\ ~panicked /\ Room
    /\ \E n \in (IF Idle THEN SliceInputs ELSE IF last.op = "to_vec" THEN {last.bytes} ELSE {}),
          f \in Outcomes :
          LET R == new_from_slice_(Machine, n, f)
          IN  /\ Commit(R.S)
              /\ slots' = IF R.res = "Ok" THEN Append(slots, R.out) ELSE slots
              /\ last' = Record("new_from_slice", R.res, 0, R.out, R.payload, R.S, <<>>, n)
              /\ UNCHANGED panicked

\* ------------------------------------------------ the checked operations
\* an operation lifted by with_bn! (ctx FALSE) or with_bn_in_ctx! (ctx TRUE)
Lift(S, p, f, ctx) == IF ctx THEN with_bn_in_ctx(S, p, f) ELSE with_bn(S, p, f)

Checked(op, p, f, ctx, args) ==
    /\ f.prim => PrimFits(Machine, p)
    /\ ReturnBigNum(op, Lift(Machine, p, f, ctx), args)

\* operations of one, two and three BigNum references
Checked1(op, name, ctx) ==
    /\ Room
    /\ \E s \in Slots, f \in Outcomes :
          /\ Has(s)
          /\ Checked(op, [NoPrim EXCEPT !.name = name, !.a = slots[s]], f, ctx, <<s>>)

Checked2(op, name, ctx) ==
    /\ Room
    /\ \E s, a \in Slots, f \in Outcomes :
          /\ Has(s) /\ Has(a)
          /\ Checked(op, [NoPrim EXCEPT !.name = name, !.a = slots[s], !.b = slots[a]],
                     f, ctx, <<s, a>>)

Checked3(op, name, ctx) ==
    /\ Room
    /\ \E s, a, n \in Slots, f \in Outcomes :
          /\ Has(s) /\ Has(a) /\ Has(n)
          /\ Checked(op, [NoPrim EXCEPT !.name = name, !.a = slots[s], !.b = slots[a],
                                        !.n = slots[n]], f, ctx, <<s, a, n>>)

checked_sqr == Running /\ Checked1("checked_sqr", "BN_sqr", TRUE)
checked_nnmod == Running /\ Checked2("checked_nnmod", "BN_nnmod", TRUE)
checked_mod_add == Running /\ Checked3("checked_mod_add", "BN_mod_add", TRUE)
checked_mod_sub == Running /\ Checked3("checked_mod_sub", "BN_mod_sub", TRUE)
checked_mod_mul == Running /\ Checked3("checked_mod_mul", "BN_mod_mul", TRUE)
checked_mod_sqr == Running /\ Checked2("checked_mod_sqr", "BN_mod_sqr", TRUE)
checked_exp == Running /\ Checked2("checked_exp", "BN_exp", TRUE)
checked_mod_exp == Running /\ Checked3("checked_mod_exp", "BN_mod_exp", TRUE)
checked_mod_inv == Running /\ Checked2("checked_mod_inv", "BN_mod_inverse", TRUE)
checked_gcd == Running /\ Checked2("checked_gcd", "BN_gcd", TRUE)
checked_shl1 == Running /\ Checked1("checked_shl1", "BN_lshift1", FALSE)
checked_shr1 == Running /\ Checked1("checked_shr1", "BN_rshift1", FALSE)
checked_add == Running /\ Checked2("checked_add", "BN_add", FALSE)
checked_sub == Running /\ Checked2("checked_sub", "BN_sub", FALSE)
checked_mul == Running /\ Checked2("checked_mul", "BN_mul", TRUE)
checked_div == Running /\ Checked2("checked_div", "BN_div", TRUE)
checked_mod == Running /\ Checked2("checked_mod", "BN_div(rem)", TRUE)

\* the shift counts and bit indexes the task passes
Shifts == 0..2
BitIndexes == -1..2
BitCounts == 0..BitLen(MaxMag)
\* RNGProperty: MsbMaybeZero, MsbOne, TwoMsbOne
RNGProperty == {-1, 0, 1}

CheckedShift(op, name) ==
    /\ Room
    /\ \E s \in Slots, k \in Shifts, f \in Outcomes :
          /\ Has(s)
          /\ Checked(op, [NoPrim EXCEPT !.name = name, !.a = slots[s], !.k = k], f, FALSE, <<s>>)

checked_shl == Running /\ CheckedShift("checked_shl", "BN_lshift")
checked_shr == Running /\ CheckedShift("checked_shr", "BN_rshift")

\* a range primitive that succeeds draws c below the receiver's value
CheckedRange(op, name) ==
    /\ Room
    /\ \E s \in Slots, c \in Words, f \in Outcomes :
          /\ Has(s)
          /\ IF f.prim /\ ValueAt(Machine, slots[s]) > 0
             THEN c < ValueAt(Machine, slots[s]) ELSE c = 0
          /\ Checked(op, [NoPrim EXCEPT !.name = name, !.a = slots[s], !.c = c], f, TRUE, <<s>>)

checked_rand_in_range == Running /\ CheckedRange("checked_rand_in_range", "BN_rand_range")
checked_pseudo_rand_in_range == Running /\ CheckedRange("checked_pseudo_rand_in_range", "BN_pseudo_rand_range")

\* a random primitive that succeeds draws c of the shape asked for
CheckedRandom(op, name) ==
    /\ Room
    /\ \E bits \in BitCounts, prop \in RNGProperty, odd \in BOOLEAN, c \in Words, f \in Outcomes :
          /\ IF f.prim THEN RandShape(c, bits, prop, odd) ELSE c = 0
          /\ Checked(op, [NoPrim EXCEPT !.name = name, !.k = bits, !.top = prop,
                                        !.flag = odd, !.c = c], f, TRUE, <<>>)

checked_new_random == Running /\ CheckedRandom("checked_new_random", "BN_rand")
checked_new_pseudo_random == Running /\ CheckedRandom("checked_new_pseudo_random", "BN_pseudo_rand")

checked_generate_prime ==
    /\ Running /\ Room
    /\ \E bits \in BitCounts, safe \in BOOLEAN, add, rem \in Slots \cup {0},
          c \in Words, f \in Outcomes :
          /\ add # 0 => Has(add)
          /\ rem # 0 => Has(rem)
          /\ LET add_arg == IF add = 0 THEN NULL ELSE slots[add]
                 rem_arg == IF rem = 0 THEN NULL ELSE slots[rem]
                 p == [NoPrim EXCEPT !.name = "BN_generate_prime_ex", !.b = add_arg,
                                     !.n = rem_arg, !.k = bits, !.flag = safe, !.c = c]
             IN  /\ IF f.prim
                    THEN PrimeShape(c, bits, safe, add_arg # NULL, ValueAt(Machine, add_arg),
                                    rem_arg # NULL, ValueAt(Machine, rem_arg))
                    ELSE c = 0
                 /\ Checked("checked_generate_prime", p, f, TRUE,
                            IF add = 0 THEN (IF rem = 0 THEN <<>> ELSE <<rem>>)
                            ELSE (IF rem = 0 THEN <<add>> ELSE <<add, rem>>))

\* ------------------------------------------------------ primality testing
PrimeOp(op, name) ==
    /\ \E s \in Slots, f \in Outcomes :
          /\ Has(s) /\ f.new
          /\ LET R == with_ctx(Machine, name, slots[s], f)
             IN  ReturnValue(op, R.res, R.val, R.payload, R.S, <<s>>, <<>>)

is_prime == Running /\ PrimeOp("is_prime", "BN_is_prime_ex")
is_prime_fast == Running /\ PrimeOp("is_prime_fast", "BN_is_prime_fasttest_ex")

\* ----------------------------------------------------------- bit operations
\* Ok(()) when the primitive returned 1, Err(SslError::get()) otherwise
UnitResult(op, S, args) ==
    IF S.ret = 1
    THEN ReturnValue(op, "Ok", 0, {}, S, args, <<>>)
    ELSE LET e == Err(S) IN ReturnValue(op, "Err", 0, e.payload, e.S, args, <<>>)

set_bit ==
    /\ Running
    /\ \E s \in Slots, n \in BitIndexes, ok \in BOOLEAN :
          /\ Has(s)
          /\ LET S == BN_set_bit(Machine, slots[s], n, ok)
             IN  /\ MagAt(S, slots[s]) <= MaxMag
                 /\ UnitResult("set_bit", S, <<s>>)

clear_bit ==
    /\ Running
    /\ \E s \in Slots, n \in BitIndexes :
          /\ Has(s)
          /\ UnitResult("clear_bit", BN_clear_bit(Machine, slots[s], n), <<s>>)

mask_bits ==
    /\ Running
    /\ \E s \in Slots, n \in BitIndexes :
          /\ Has(s)
          /\ UnitResult("mask_bits", BN_mask_bits(Machine, slots[s], n), <<s>>)

is_bit_set ==
    /\ Running
    /\ \E s \in Slots, n \in BitIndexes :
          /\ Has(s)
          /\ LET S == BN_is_bit_set(Machine, slots[s], n)
             IN  ReturnValue("is_bit_set", "ret", IF S.ret = 1 THEN 1 ELSE 0, {}, S, <<s>>, <<>>)

\* ------------------------------------------------- sign, size, comparison
\* is_negative reads the struct's neg field
is_negative_(S, h) == IF h \in Handles /\ S.heap[h].neg THEN 1 ELSE 0

is_negative ==
    /\ Running
    /\ \E s \in Slots :
          /\ Has(s)
          /\ ReturnValue("is_negative", "ret", is_negative_(Machine, slots[s]), {},
                         Touch(Machine, {slots[s]}), <<s>>, <<>>)

\* faulty variant: the sign is set rather than flipped
negate_set(S, h) == BN_set_negative(Touch(S, {h}), h, TRUE)
\* BN_set_negative(self, !self.is_negative())
negate_(S, h) == BN_set_negative(Touch(S, {h}), h, is_negative_(S, h) # 1)

\* negate, also straight after a negate
negate ==
    /\ ~panicked /\ (Idle \/ last.op = "negate")
    /\ \E s \in Slots :
          /\ Has(s)
          /\ ReturnValue("negate", "ret", 0, {}, negate_(Machine, slots[s]), <<s>>, <<>>)

\* abs_cmp takes oth by value: oth is dropped when abs_cmp returns
abs_cmp ==
    /\ Running
    /\ \E s, o \in Slots :
          /\ Has(s) /\ Has(o) /\ s # o
          /\ LET S1 == BN_ucmp(Machine, slots[s], slots[o])
                 S2 == Drop(S1, slots[o])
             IN  /\ Commit(S2)
                 /\ slots' = Remove(slots, o)
                 /\ last' = Record("abs_cmp", "ret", Sign(S1.ret), NoVal, {}, S2, <<s, o>>, <<>>)
                 /\ UNCHANGED panicked

num_bits ==
    /\ Running
    /\ \E s \in Slots :
          /\ Has(s)
          /\ LET S == BN_num_bits(Machine, slots[s])
             IN  ReturnValue("num_bits", "ret", S.ret, {}, S, <<s>>, <<>>)

\* faulty variant: one byte more than the whole bytes
num_bytes_floor(S) == S.ret \div 8 + 1
\* (self.num_bits() + 7) / 8
num_bytes_(S) == (S.ret + 7) \div 8

num_bytes ==
    /\ Running
    /\ \E s \in Slots :
          /\ Has(s)
          /\ LET S == BN_num_bits(Machine, slots[s])
             IN  ReturnValue("num_bytes", "ret", num_bytes_(S), {}, S, <<s>>, <<>>)

is_zero ==
    /\ Running
    /\ \E s \in Slots :
          /\ Has(s)
          /\ LET S == BN_is_zero(Machine, slots[s])
             IN  ReturnValue("is_zero", "ret", IF S.ret = 1 THEN 1 ELSE 0, {}, S, <<s>>, <<>>)

eq ==
    /\ Running
    /\ \E s, o \in Slots :
          /\ Has(s) /\ Has(o)
          /\ LET S == BN_cmp(Machine, slots[s], slots[o])
             IN  ReturnValue("eq", "ret", IF S.ret = 0 THEN 1 ELSE 0, {}, S, <<s, o>>, <<>>)

\* partial_cmp always returns Some
partial_cmp_(S, a, b) ==
    LET S1 == BN_cmp(S, a, b) IN [S |-> S1, some |-> TRUE, ord |-> Sign(S1.ret)]

partial_cmp ==
    /\ Running
    /\ \E s, o \in Slots :
          /\ Has(s) /\ Has(o)
          /\ LET r == partial_cmp_(Machine, slots[s], slots[o])
             IN  ReturnValue("partial_cmp", "ret", r.ord, {}, r.S, <<s, o>>, <<>>)

\* self.partial_cmp(oth).unwrap()
cmp ==
    /\ Running
    /\ \E s, o \in Slots :
          /\ Has(s) /\ Has(o)
          /\ LET r == partial_cmp_(Machine, slots[s], slots[o])
             IN  IF r.some
                 THEN ReturnValue("cmp", "ret", r.ord, {}, r.S, <<s, o>>, <<>>)
                 ELSE Panic("cmp", r.S, <<s, o>>)

\* ------------------------------------------------------------- conversion
\* to_vec: a vector of capacity num_bytes, filled by BN_bn2bin, its length
\* then set to num_bytes; g stands for a byte BN_bn2bin did not write
to_vec_(S, h, g) ==
    LET S1 == BN_num_bits(S, h)
        size == num_bytes_(S1)
        S2 == BN_bn2bin(S1, h)
        w == ToBytes(MagAt(S, h))
    IN  [S |-> S2, v |-> [i \in 1..size |-> IF i <= Len(w) THEN w[i] ELSE g]]

to_vec ==
    /\ Running
    /\ \E s \in Slots, g \in {0, 255} :
          /\ Has(s)
          /\ LET r == to_vec_(Machine, slots[s], g)
             IN  ReturnValue("to_vec", "ret", Len(r.v), {}, r.S, <<s>>, r.v)

\* to_dec_str: BN_bn2dec, assert!(!buf.is_null()), the text copied, the
\* buffer freed
to_dec_str_(S, h, ok) ==
    LET S1 == BN_bn2dec(S, h, ok) IN
    IF S1.ret = NULL
    THEN [S |-> S1, panic |-> TRUE, str |-> <<>>]
    ELSE [S |-> CRYPTO_free(S1), panic |-> FALSE, str |-> DecText(ValueAt(S, h))]

to_dec_str ==
    /\ Running
    /\ \E s \in Slots, ok \in BOOLEAN :
          /\ Has(s)
          /\ LET r == to_dec_str_(Machine, slots[s], ok)
             IN  IF r.panic
                 THEN Panic("to_dec_str", r.S, <<s>>)
                 ELSE ReturnValue("to_dec_str", "ret", 0, {}, r.S, <<s>>, r.str)

\* fmt::Show: write!(f, "{}", self.to_dec_str())
fmt ==
    /\ Running
    /\ \E s \in Slots, ok \in BOOLEAN :
          /\ Has(s)
          /\ LET r == to_dec_str_(Machine, slots[s], ok)
             IN  IF r.panic
                 THEN Panic("fmt", r.S, <<s>>)
                 ELSE ReturnValue("fmt", "Ok", 0, {}, r.S, <<s>>, r.str)

\* ---------------------------------------------------------- the constants
\* unwrap() of a Result<BigNum, SslError>
Unwrap(op, R, args) ==
    IF R.res = "Ok" THEN ReturnBigNum(op, R, args) ELSE Panic(op, R.S, args)

\* BigNum::new_from(n).unwrap()
Constant(op, n) ==
    /\ Room
    /\ \E f \in Outcomes : Unwrap(op, new_from_(Machine, n, f), <<>>)

one == Running /\ Constant("one", 1)
zero == Running /\ Constant("zero", 0)

\* ----------------------------------------------------- the operator forms
\* self.checked_<op>(oth).unwrap()
Unchecked(op, p, f, ctx, args) ==
    /\ f.prim => PrimFits(Machine, p)
    /\ Unwrap(op, Lift(Machine, p, f, ctx), args)

Unchecked2(op, name, ctx) ==
    /\ Room
    /\ \E s, a \in Slots, f \in Outcomes :
          /\ Has(s) /\ Has(a)
          /\ Unchecked(op, [NoPrim EXCEPT !.name = name, !.a = slots[s], !.b = slots[a]],
                       f, ctx, <<s, a>>)

UncheckedShift(op, name) ==
    /\ Room
    /\ \E s \in Slots, k \in Shifts, f \in Outcomes :
          /\ Has(s)
          /\ Unchecked(op, [NoPrim EXCEPT !.name = name, !.a = slots[s], !.k = k],
                       f, FALSE, <<s>>)

add == Running /\ Unchecked2("add", "BN_add", FALSE)
sub == Running /\ Unchecked2("sub", "BN_sub", FALSE)
mul == Running /\ Unchecked2("mul", "BN_mul", TRUE)
div == Running /\ Unchecked2("div", "BN_div", TRUE)
rem == Running /\ Unchecked2("rem", "BN_div(rem)", TRUE)
shl == Running /\ UncheckedShift("shl", "BN_lshift")
shr == Running /\ UncheckedShift("shr", "BN_rshift")

\* faulty variant: the clone shares the pointer
clone_shallow(S, h, ok) == [S |-> BigNum(S, h), panic |-> FALSE, out |-> h]
\* Clone: BN_dup, fail! on null
clone_(S, h, ok) ==
    LET S1 == BN_dup(S, h, ok)
        r == S1.ret
    IN  IF r = NULL
        THEN [S |-> S1, panic |-> TRUE, out |-> NoVal]
        ELSE [S |-> BigNum(S1, r), panic |-> FALSE, out |-> r]

clone ==
    /\ Running /\ Room
    /\ \E s \in Slots, ok \in BOOLEAN :
          /\ Has(s)
          /\ LET r == clone_(Machine, slots[s], ok)
             IN  IF r.panic
                 THEN Panic("clone", r.S, <<s>>)
                 ELSE ReturnBigNum("clone", Ok(r.S, r.out), <<s>>)

\* Neg: the clone is negated and returned
neg_(S, h, ok) ==
    LET n == clone_(S, h, ok) IN
    IF n.panic THEN n ELSE [n EXCEPT !.S = negate_(n.S, n.out)]

neg ==
    /\ Running /\ Room
    /\ \E s \in Slots, ok \in BOOLEAN :
          /\ Has(s)
          /\ LET r == neg_(Machine, slots[s], ok)
             IN  IF r.panic
                 THEN Panic("neg", r.S, <<s>>)
                 ELSE ReturnBigNum("neg", Ok(r.S, r.out), <<s>>)

\* a BigNum goes out of scope
drop ==
    /\ Running
    /\ \E s \in Slots :
          /\ Has(s)
          /\ LET S == Drop(Machine, slots[s])
             IN  /\ Commit(S)
                 /\ slots' = Remove(slots, s)
                 /\ last' = Record("drop", "ret", 0, NoVal, {}, S, <<s>>, <<>>)
                 /\ UNCHANGED panicked

\* ---------------------------------------------------------- specifications
Init ==
    /\ heap = [h \in Handles |-> Unalloc]
    /\ slots = <<>>
    /\ ctxLive = 0
    /\ bufLive = 0
    /\ errq = {}
    /\ uaf = FALSE
    /\ panicked = FALSE
    /\ last = None

Next ==
    \/ new
    \/ new_from
    \/ new_from_slice
    \/ checked_sqr
    \/ checked_nnmod
    \/ checked_mod_add
    \/ checked_mod_sub
    \/ checked_mod_mul
    \/ checked_mod_sqr
    \/ checked_exp
    \/ checked_mod_exp
    \/ checked_mod_inv
    \/ checked_gcd
    \/ checked_generate_prime
    \/ is_prime
    \/ is_prime_fast
    \/ checked_new_random
    \/ checked_new_pseudo_random
    \/ checked_rand_in_range
    \/ checked_pseudo_rand_in_range
    \/ set_bit
    \/ clear_bit
    \/ is_bit_set
    \/ mask_bits
    \/ checked_shl1
    \/ checked_shr1
    \/ checked_add
    \/ checked_sub
    \/ checked_mul
    \/ checked_div
    \/ checked_mod
    \/ checked_shl
    \/ checked_shr
    \/ negate
    \/ abs_cmp
    \/ is_negative
    \/ num_bits
    \/ num_bytes
    \/ to_vec
    \/ to_dec_str
    \/ fmt
    \/ one
    \/ zero
    \/ is_zero
    \/ eq
    \/ cmp
    \/ partial_cmp
    \/ add
    \/ sub
    \/ mul
    \/ div
    \/ rem
    \/ shl
    \/ shr
    \/ clone
    \/ neg
    \/ drop
    \/ take

Spec == Init /\ [][Next]_vars

\* The byte-conversion specification: the task holds one BigNum of a
\* magnitude of up to three bytes (or the test's four-byte value), of either
\* sign, and converts it to bytes and back.
BytesMags == {m \in (0..3) \cup (254..258) \cup (65534..65538) \cup {MaxBytesMag}
                 : m <= MaxBytesMag} \cup {TestValue}

InitBytes ==
    /\ \E m \in BytesMags, sign \in BOOLEAN :
          heap = [h \in Handles |->
                    IF h = 1 THEN [Unalloc EXCEPT !.st = "live", !.wrapped = TRUE,
                                                  !.neg = sign /\ m # 0, !.mag = m]
                    ELSE Unalloc]
    /\ slots = <<1>>
    /\ ctxLive = 0
    /\ bufLive = 0
    /\ errq = {}
    /\ uaf = FALSE
    /\ panicked = FALSE
    /\ last = None

NextBytes ==
    \/ to_vec
    \/ new_from_slice
    \/ num_bits
    \/ num_bytes
    \/ drop
    \/ take

SpecBytes == InitBytes /\ [][NextBytes]_vars
\* ----------------------------------------------------------------- claims
Range(q) == {q[i] : i \in DOMAIN q}
Trace == last.trace
Calls(name) == {i \in DOMAIN Trace : Trace[i].call = name}
Acquired == {i \in Calls("BN_CTX_new") : ~Trace[i].failed}
Released == Calls("BN_CTX_free")
\* the operations built on with_ctx! and with_bn_in_ctx!
CtxOps == {"is_prime", "is_prime_fast", "checked_sqr", "checked_nnmod", "checked_mod_add",
           "checked_mod_sub", "checked_mod_mul", "checked_mod_sqr", "checked_exp",
           "checked_mod_exp", "checked_mod_inv", "checked_gcd", "checked_generate_prime",
           "checked_new_random", "checked_new_pseudo_random", "checked_rand_in_range",
           "checked_pseudo_rand_in_range", "checked_mul", "checked_div", "checked_mod"}
\* the operator forms
Adapters == {"add", "sub", "mul", "div", "rem", "shl", "shr", "neg", "clone"}
\* the operations that mutate their receiver
Mutators == {"negate", "set_bit", "clear_bit", "mask_bits"}
\* the operation returned a Result
Fallible == last.res \in {"Ok", "Err"}

\* C1: an operation that acquires a scratch context releases it exactly
\* once, after acquiring it and before it returns, whatever the outcomes of
\* the destination allocation, the context allocation and the primitive; one
\* whose context allocation fails releases none; no scratch context is live
\* once an operation has returned.
C1_ContextReleasedOnce ==
    /\ ctxLive = 0
    /\ Cardinality(Acquired) = Cardinality(Released)
    /\ Cardinality(Released) <= 1
    /\ \A i \in Acquired : \E j \in Released : i < j
    /\ (last.op \in CtxOps /\ Calls("BN_CTX_new") = {}) =>
          \E i \in Calls("BN_new") : Trace[i].failed

\* C1 witness: a checked operation whose primitive failed after the context
\* was acquired, and which freed the context before returning the error
C1_Witness ==
    /\ last.op = "checked_mod_inv" /\ last.res = "Err"
    /\ \E i \in Acquired, j \in Calls("BN_mod_inverse"), k \in Released :
          i < j /\ j < k /\ Trace[j].failed

\* C2: when a constructor or a result-lifting operation returns an error,
\* every native handle it allocated during the call has been clear-freed.
C2_ConstructionLeakFree ==
    last.res = "Err" =>
        \A i \in Calls("BN_new") :
            Trace[i].ret # NULL =>
                \E j \in Calls("BN_clear_free") : i < j /\ Trace[j].h = Trace[i].ret

\* C3: whenever a primitive of an operation that returns a Result reports
\* failure, the operation returns an error, never a success value.
C3_FailurePropagates ==
    Fallible /\ (\E i \in DOMAIN Trace : Trace[i].failed) => last.res = "Err"

\* C4: after an operation other than a drop returns, every BigNum passed to
\* it is still live and has the sign and magnitude it had before the call,
\* except the receiver of negate, set_bit, clear_bit and mask_bits, which is
\* still live.
C4_ArgumentsKept ==
    (last.op # "drop" /\ last.res # "panic") =>
        \A i \in DOMAIN last.args :
            /\ last.args[i] \in Handles
            /\ heap[last.args[i]].st = "live"
            /\ (i = 1 /\ last.op \in Mutators)
               \/ /\ heap[last.args[i]].neg = last.argv[i].neg
                  /\ heap[last.args[i]].mag = last.argv[i].mag

\* C5: outside the operator forms no failure of a primitive or of an
\* allocation makes an operation panic: a panic happens only in +, -, *, /,
\* rem, <<, >>, unary minus and clone.
C5_OnlyAdaptersPanic == panicked => last.op \in Adapters

\* C6: every BigNum the task owns holds a non-null, live handle that no
\* other BigNum holds; no handle is released twice, released with plain
\* free or touched after its release; a handle a BigNum held and holds no
\* longer has been clear-freed exactly once.
C6_HandleOwnership ==
    /\ \A s \in DOMAIN slots : slots[s] \in Handles /\ heap[slots[s]].st = "live"
    /\ \A s, t \in DOMAIN slots : s # t => slots[s] # slots[t]
    /\ \A h \in Handles :
          /\ heap[h].frees <= 1
          /\ heap[h].plain = 0
          /\ heap[h].st = "freed" <=> heap[h].frees = 1
          /\ (heap[h].wrapped /\ h \notin Range(slots)) => heap[h].frees = 1
    /\ ~uaf

\* C6 witness: abs_cmp released the BigNum it took while a clone and its
\* original are still held
C6_Witness ==
    /\ last.op = "abs_cmp" /\ Len(slots) = 2
    /\ \E h \in Handles : heap[h].frees = 1 /\ heap[h].wrapped
    /\ \E i \in Calls("BN_clear_free") : Trace[i].h = last.args[2]

RECURSIVE BigEndian(_, _)
\* the number a byte sequence denotes, most significant byte first: the
\* byte at position i has weight 256^(Len - i)
BigEndian(b, i) == IF i > Len(b) THEN 0 ELSE b[i] * Pow(256, Len(b) - i) + BigEndian(b, i + 1)

\* C7: to_vec returns exactly ceil(num_bits / 8) bytes, which denote the
\* magnitude most significant byte first and are none for zero; and
\* new_from_slice of the vector to_vec has just returned for x succeeds
\* unless a primitive fails, with the value |x|.
C7_BytesRoundTrip ==
    [][ /\ last'.op = "to_vec" =>
              LET x == last'.argv[1]
                  v == last'.bytes
              IN  /\ 8 * Len(v) >= BitLen(x.mag)
                  /\ 8 * (Len(v) - 1) < BitLen(x.mag)
                  /\ \A i \in DOMAIN v : v[i] \in 0..255
                  /\ BigEndian(v, 1) = x.mag
                  /\ x.mag = 0 => v = <<>>
                  /\ last'.val = Len(v)
        /\ (last.op = "to_vec" /\ last'.op = "new_from_slice") =>
              /\ last'.bytes = last.bytes
              /\ last'.res = "Ok" <=> \A i \in DOMAIN last'.trace : ~last'.trace[i].failed
              /\ last'.res = "Ok" =>
                    /\ heap'[last'.out].st = "live"
                    /\ ~heap'[last'.out].neg
                    /\ heap'[last'.out].mag = last.argv[1].mag
                    /\ last.argv[1].mag = 0 => heap'[last'.out].mag = 0
      ]_vars

\* C7 witness: the three bytes of a negative value were read back as its
\* magnitude
C7_Witness ==
    /\ last.op = "new_from_slice" /\ last.res = "Ok" /\ Len(last.bytes) = 3
    /\ heap[1].neg /\ heap[1].st = "live"
    /\ heap[last.out].mag = heap[1].mag /\ ~heap[last.out].neg

\* C8: negate flips the sign of its receiver and keeps the magnitude, zero
\* staying non-negative, and changes no other handle; a negate straight
\* after a negate of the same receiver restores the value; unary minus
\* returns a fresh BigNum of flipped sign and leaves its operand as it was.
C8_Negation ==
    [][ /\ last'.op = "negate" =>
              LET h == last'.args[1]
                  x == last'.argv[1]
              IN  /\ heap'[h].st = "live"
                  /\ heap'[h].mag = x.mag
                  /\ heap'[h].neg = (~x.neg /\ x.mag # 0)
                  /\ \A g \in Handles \ {h} : heap'[g] = heap[g]
        /\ (last.op = "negate" /\ last'.op = "negate" /\ last'.args = last.args) =>
              /\ heap'[last'.args[1]].neg = last.argv[1].neg
              /\ heap'[last'.args[1]].mag = last.argv[1].mag
        /\ (last'.op = "neg" /\ last'.res = "Ok") =>
              LET h == last'.args[1]
                  r == last'.out
              IN  /\ r # h /\ heap[r].st = "unalloc" /\ heap'[r].st = "live"
                  /\ heap'[r].mag = heap[h].mag
                  /\ heap'[r].neg = (~heap[h].neg /\ heap[h].mag # 0)
                  /\ heap'[h] = heap[h]
      ]_vars

\* C8 witness: a second negate in a row made a negative value non-negative
C8_Witness ==
    /\ last.op = "negate" /\ last.argv[1].neg /\ last.argv[1].mag > 0
    /\ ~heap[last.args[1]].neg /\ heap[last.args[1]].mag = last.argv[1].mag

\* C10: in an operation that returns a Result, a primitive's 0/null return
\* is followed at once by the error snapshot, before the scratch context is
\* freed and before the destination is clear-freed; the snapshot is the
\* error queue as that primitive left it, and it is the payload of the error
\* the operation returns.
C10_SnapshotFirst ==
    Fallible =>
        \A i \in DOMAIN Trace :
            (Trace[i].failed /\ Trace[i].ret = 0) =>
                /\ i < Len(Trace)
                /\ Trace[i + 1].call = "SslError::get"
                /\ last.res = "Err"
                /\ last.payload = Trace[i].q

\* C10 witness: BN_mod_inverse failed inside with_bn_in_ctx!; the snapshot
\* came next, then the context was freed and the destination clear-freed
C10_Witness ==
    /\ last.op = "checked_mod_inv" /\ last.res = "Err"
    /\ last.payload = {"BN_mod_inverse"}
    /\ \E i \in Calls("BN_mod_inverse") :
          /\ Trace[i].failed
          /\ Trace[i + 1].call = "SslError::get"
          /\ Trace[i + 2].call = "BN_CTX_free"
          /\ Trace[i + 3].call = "BN_clear_free"
====
